---- MODULE Spec2Model ----
(***************************************************************************)
(* A model of examples/05_visualizing_models.ipynb: get_label and          *)
(* visualize_model, run on a pipeline (model.layers) before and after      *)
(* shape inference (model.initialize).                                     *)
(*                                                                         *)
(* Strings are sequences of one-character strings, so that formatting and  *)
(* str.replace are computed character by character.  A layer object is     *)
(* identified by its id (a thinc Model's id is unique per instance): a     *)
(* pipeline in which an identifier repeats holds the same object twice.    *)
(***************************************************************************)
EXTENDS Integers, Sequences, FiniteSets, TLC

\* ---------------------------------------------------------------- bounds
MaxLayers == 3

\* The identifiers of the layer objects a pipeline is made of.
Ids == {1, 2}
DimNames == {"nO", "nI"}
DimValues == {16, 32}

\* ------------------------------------------------------------- strings
DigitChar == <<"0", "1", "2", "3", "4", "5", "6", "7", "8", "9">>

RECURSIVE Digits(_)
\* str(n) / f"{n}" of a non-negative int: its decimal digits.
Digits(n) ==
    IF n < 10 THEN <<DigitChar[n + 1]>>
    ELSE Digits(n \div 10) \o <<DigitChar[(n % 10) + 1]>>

\* A replace that stops after the first occurrence.
ReplaceFirst(s, old, new) ==
    IF \E k \in 1..(Len(s) - Len(old) + 1) : SubSeq(s, k, k + Len(old) - 1) = old
    THEN LET k == CHOOSE k \in 1..(Len(s) - Len(old) + 1) :
                      /\ SubSeq(s, k, k + Len(old) - 1) = old
                      /\ \A m \in 1..(k - 1) : SubSeq(s, m, m + Len(old) - 1) # old
         IN  SubSeq(s, 1, k - 1) \o new \o SubSeq(s, k + Len(old), Len(s))
    ELSE s

RECURSIVE Replace(_, _, _)
\* s.replace(old, new) for a non-empty old: leftmost, non-overlapping.
Replace(s, old, new) ==
    IF Len(s) < Len(old) THEN s
    ELSE IF SubSeq(s, 1, Len(old)) = old
         THEN new \o Replace(SubSeq(s, Len(old) + 1, Len(s)), old, new)
         ELSE <<Head(s)>> \o Replace(Tail(s), old, new)

Gt == <<">">>
GtEntity == <<"&", "g", "t", ";">>
Placeholder == <<"?">>

\* Layer names the pipeline may carry: a plain one, and a chained one that
\* also holds the entity text already.
Names == { <<"r">>, <<"a", ">", ">", "&", "g", "t", ";">> }

\* -------------------------------------------------------------- layers
\* A dimension of a layer: not registered, registered but unset (None),
\* or set to an int.
Absent == [has |-> "absent", val |-> 0]
Unset == [has |-> "unset", val |-> 0]
SetTo(v) == [has |-> "set", val |-> v]
DimStates == {Absent, Unset} \cup {SetTo(v) : v \in DimValues}

LayerObjs == [name : Names, dims : [DimNames -> DimStates]]

\* Model.has_dim: False when the name is not registered, None when it is
\* registered and unset, True when it is set.
has_dim(layer, d) ==
    CASE layer.dims[d].has = "absent" -> "False"
      [] layer.dims[d].has = "unset" -> "None"
      [] OTHER -> "True"

Truthy(b) == b = "True"

\* Model.get_dim: the value, or an exception when absent or unset.
get_dim(layer, d) ==
    IF layer.dims[d].has = "set"
    THEN [ok |-> TRUE, val |-> layer.dims[d].val]
    ELSE [ok |-> FALSE, val |-> 0]

\* One "x if c else '?'" of get_label, then formatted by the f-string.
DimText(layer, d) ==
    IF Truthy(has_dim(layer, d))
    THEN LET r == get_dim(layer, d)
         IN  [ok |-> r.ok, val |-> IF r.ok THEN Digits(r.val) ELSE <<>>]
    ELSE [ok |-> TRUE, val |-> Placeholder]

\* A get_label that stores its result as the layer's name.
LabelEffectRename(os, id) ==
    [os EXCEPT ![id].name = Replace(os[id].name, Gt, GtEntity)]

\* get_label assigns to nothing but its locals: the layer objects after
\* get_label(layer) are the layer objects before it.
LabelEffect(os, id) == os

\* get_label with the two dimensions in the wrong order.
get_label_swapped(layer) ==
    LET nO == DimText(layer, "nO")
        nI == DimText(layer, "nI")
    IN  IF nO.ok /\ nI.ok
        THEN [ok |-> TRUE,
              val |-> Replace(layer.name \o <<"|", "(">> \o nI.val
                              \o <<",", " ">> \o nO.val \o <<")">>,
                              Gt, GtEntity)]
        ELSE [ok |-> FALSE, val |-> <<>>]

\* get_label reading nI under the test of nO.
get_label_unguarded(layer) ==
    LET nO == DimText(layer, "nO")
        nI == IF Truthy(has_dim(layer, "nO"))
              THEN LET r == get_dim(layer, "nI")
                   IN  [ok |-> r.ok, val |-> IF r.ok THEN Digits(r.val) ELSE <<>>]
              ELSE [ok |-> TRUE, val |-> Placeholder]
    IN  IF nO.ok /\ nI.ok
        THEN [ok |-> TRUE,
              val |-> Replace(layer.name \o <<"|", "(">> \o nO.val
                              \o <<",", " ">> \o nI.val \o <<")">>,
                              Gt, GtEntity)]
        ELSE [ok |-> FALSE, val |-> <<>>]

\* get_label that never looks nI up.
get_label_no_nI(layer) ==
    LET nO == DimText(layer, "nO")
    IN  IF nO.ok
        THEN [ok |-> TRUE,
              val |-> Replace(layer.name \o <<"|", "(">> \o nO.val
                              \o <<",", " ">> \o Placeholder \o <<")">>,
                              Gt, GtEntity)]
        ELSE [ok |-> FALSE, val |-> <<>>]

get_label(layer) ==
    LET nO == DimText(layer, "nO")
        nI == DimText(layer, "nI")
    IN  IF nO.ok /\ nI.ok
        THEN [ok |-> TRUE,
              val |-> Replace(layer.name \o <<"|", "(">> \o nO.val
                              \o <<",", " ">> \o nI.val \o <<")">>,
                              Gt, GtEntity)]
        ELSE [ok |-> FALSE, val |-> <<>>]

\* --------------------------------------------------------------- state
VARIABLES
    layers,       \* model.layers: the ordered list of layer ids
    objs,         \* the layer objects of the pipeline, by id
    pc,           \* "idle", "node", "edge", "render", "done", or an
                  \* exception: "label_error" (get_dim), "key_error" (nodes[...])
    i,            \* the loop index of visualize_model (1-based)
    dot_nodes,    \* the nodes of the pydot graph, in insertion order
    dot_edges,    \* the edges of the pydot graph, in insertion order
    nodes,        \* the local dict nodes: layer id -> Node
    shown,        \* the labels displayed by the current or last call
    initialized,  \* model.initialize has run
    before,       \* the layer objects as they were when initialize ran
    firstShown    \* what was displayed last before initialize ran

vars == <<layers, objs, pc, i, dot_nodes, dot_edges, nodes, shown,
          initialized, before, firstShown>>

RECURSIVE SeqsUpTo(_, _)
SeqsUpTo(S, n) ==
    IF n = 0 THEN {<<>>}
    ELSE LET shorter == SeqsUpTo(S, n - 1)
         IN  shorter \cup {Append(s, x) : s \in shorter, x \in S}

Range(s) == {s[k] : k \in DOMAIN s}

NoDict == [k \in {} |-> 0]
NotShown == [valid |-> FALSE, labels |-> <<>>]

Init ==
    /\ layers \in SeqsUpTo(Ids, MaxLayers)
    /\ objs \in [Range(layers) -> LayerObjs]
    /\ pc = "idle"
    /\ i = 1
    /\ dot_nodes = <<>>
    /\ dot_edges = <<>>
    /\ nodes = NoDict
    /\ shown = NotShown
    /\ initialized = FALSE
    /\ before = objs
    /\ firstShown = NotShown

\* ---------------------------------------------------------------- pydot
\* pydot.Node(layer.id, label=label): the node's name is str(layer.id).
\* `at` stands for the object's identity: the iteration that created it.
Node(id, label, at) == [name |-> Digits(id), label |-> label, at |-> at]

\* pydot.Edge(from_node, to_node): the end points are the nodes' names.
Edge(from_node, to_node) == [points |-> <<from_node.name, to_node.name>>]

\* An add_node that keeps one node per name.
add_node_keyed(ns, node) ==
    Append(SelectSeq(ns, LAMBDA n : n.name # node.name), node)

\* Dot.add_node: appends to the list kept under the node's name; the graph
\* then holds one more node object.
add_node(ns, node) == Append(ns, node)

\* Dot.add_edge: appends to the list kept under the edge's end points.
add_edge(es, edge) == Append(es, edge)

\* The edges kept under the key (src, dst) of the graph's edge table, whose
\* keys are pairs of node names.
get_edge(es, src, dst) == SelectSeq(es, LAMBDA e : e.points = <<src, dst>>)

\* dot.get_edge(from_node, to_node) is handed Node objects.  The notebook
\* installs pydot unpinned: a build that turns the objects into their names
\* finds the edges kept under the names; a build that looks the pair of
\* objects up as it stands among the name keys finds nothing.
EdgeLookups(es, from_node, to_node) ==
    { get_edge(es, from_node.name, to_node.name), <<>> }

\* A table that keeps the first value of a key (setdefault).
PutIfAbsent(dict, key, value) ==
    [k \in DOMAIN dict \cup {key} |-> IF k \in DOMAIN dict THEN dict[k] ELSE value]

\* nodes[key] = value on a dict.
Put(dict, key, value) ==
    [k \in DOMAIN dict \cup {key} |-> IF k = key THEN value ELSE dict[k]]

\* A loop without the "continue" of the first iteration.
IsFirstNever(k) == FALSE

\* if i == 0: continue   (i is 1-based here)
IsFirst(k) == k = 1

\* Every edge drawn from the first layer.
EdgeSourceFirst(ls, k) == ls[1]

\* model.layers[i - 1].id, the predecessor of the layer at k; Python's index
\* -1 (i = 0) is the last element.
EdgeSource(ls, k) == IF k = 1 THEN ls[Len(ls)] ELSE ls[k - 1]

\* The for loop's next position: the next layer, or past the end.
Advance(k) ==
    /\ i' = k + 1
    /\ pc' = IF k + 1 > Len(layers) THEN "render" ELSE "node"

\* ------------------------------------------------------------- actions
\* visualize_model(model), up to the start of the loop: a fresh graph, an
\* empty node table, and nothing displayed yet.
Call ==
    /\ pc \in {"idle", "done"}
    /\ dot_nodes' = <<>>
    /\ dot_edges' = <<>>
    /\ nodes' = NoDict
    /\ i' = 1
    /\ pc' = IF layers = <<>> THEN "render" ELSE "node"
    /\ shown' = NotShown
    /\ UNCHANGED <<layers, objs, initialized, before, firstShown>>

\* One iteration up to the "continue": label, node, add_node, nodes[id].
NodeStep ==
    /\ pc = "node"
    /\ LET id == layers[i]
           label == get_label(objs[id])
           node == Node(id, label.val, i)
       IN  IF ~label.ok
           THEN /\ pc' = "label_error"
                /\ UNCHANGED <<i, dot_nodes, nodes, objs>>
           ELSE /\ objs' = LabelEffect(objs, id)
                /\ dot_nodes' = add_node(dot_nodes, node)
                /\ nodes' = Put(nodes, id, node)
                /\ IF IsFirst(i)
                   THEN Advance(i)
                   ELSE pc' = "edge" /\ i' = i
    /\ UNCHANGED <<layers, dot_edges, shown, initialized, before, firstShown>>

\* The rest of the iteration: the two lookups, get_edge, add_edge.
EdgeStep ==
    /\ pc = "edge"
    /\ LET from_id == EdgeSource(layers, i)
           to_id == layers[i]
       IN  IF from_id \notin DOMAIN nodes \/ to_id \notin DOMAIN nodes
           THEN /\ pc' = "key_error"
                /\ UNCHANGED <<i, dot_edges>>
           ELSE LET from_node == nodes[from_id]
                    to_node == nodes[to_id]
                IN  /\ \E found \in EdgeLookups(dot_edges, from_node, to_node) :
                           dot_edges' =
                               IF found = <<>>
                               THEN add_edge(dot_edges, Edge(from_node, to_node))
                               ELSE dot_edges
                    /\ Advance(i)
    /\ UNCHANGED <<layers, objs, dot_nodes, nodes, shown, initialized,
                   before, firstShown>>

\* display(SVG(dot.create_svg())): the labels of the graph are shown.
Display ==
    /\ pc = "render"
    /\ shown' = [valid |-> TRUE,
                 labels |-> [k \in 1..Len(dot_nodes) |-> dot_nodes[k].label]]
    /\ pc' = "done"
    /\ UNCHANGED <<layers, objs, i, dot_nodes, dot_edges, nodes, initialized,
                   before, firstShown>>

\* What shape inference may leave of a dimension: a registered, unset one
\* stays unset or gets a value; any other stays as it is.
Inferred(dim) ==
    IF dim.has = "unset" THEN DimStates \ {Absent} ELSE {dim}

\* model.initialize(X=X, Y=Y), run as in the notebook after a call of
\* visualize_model, whose locals (the graph, the node table) are gone by then.
Initialize ==
    /\ pc = "done"
    /\ ~initialized
    /\ \E ds \in [DOMAIN objs -> [DimNames -> DimStates]] :
           /\ \A k \in DOMAIN objs : \A d \in DimNames :
                  ds[k][d] \in Inferred(objs[k].dims[d])
           /\ objs' = [k \in DOMAIN objs |-> [name |-> objs[k].name, dims |-> ds[k]]]
    /\ initialized' = TRUE
    /\ before' = objs
    /\ firstShown' = shown
    /\ pc' = "idle"
    /\ i' = 1
    /\ dot_nodes' = <<>>
    /\ dot_edges' = <<>>
    /\ nodes' = NoDict
    /\ UNCHANGED <<layers, shown>>

Next ==
    \/ Call
    \/ NodeStep
    \/ EdgeStep
    \/ Display
    \/ Initialize

Spec == Init /\ [][Next]_vars

\* -------------------------------------------------------------- claims
N == Len(layers)
LayerAt(k) == objs[layers[k]]
Errors == {"label_error", "key_error"}

\* The text a dimension is expected to show, written out for the values
\* the layers carry.
Expect(dim) ==
    CASE dim.has # "set" -> <<"?">>
      [] dim.has = "set" /\ dim.val = 16 -> <<"1", "6">>
      [] dim.has = "set" /\ dim.val = 32 -> <<"3", "2">>

\* name|(O, I) with nothing escaped.
Unescaped(layer) ==
    layer.name \o <<"|", "(">> \o Expect(layer.dims["nO"])
               \o <<",", " ">> \o Expect(layer.dims["nI"]) \o <<")">>

RECURSIVE EscapeChars(_)
EscapeChars(str) ==
    IF str = <<>> THEN <<>>
    ELSE (IF Head(str) = ">" THEN <<"&", "g", "t", ";">> ELSE <<Head(str)>>)
         \o EscapeChars(Tail(str))

HasGt(str) == \E k \in DOMAIN str : str[k] = ">"

\* C1 as stated: when a call has finished, the graph holds exactly N nodes
\* and at most N-1 edges, for every N >= 0.
C1_Original ==
    pc = "done" => Len(dot_nodes) = N /\ Len(dot_edges) <= N - 1

\* C1 as amended: when a call has finished, the graph holds exactly N nodes,
\* at most N-1 edges when N >= 1, and no edge when N = 0.
C1_NodesAndEdges ==
    pc = "done" =>
        /\ Len(dot_nodes) = N
        /\ Len(dot_edges) <= (IF N = 0 THEN 0 ELSE N - 1)

C1_Witness ==
    /\ pc = "done"
    /\ N = 3
    /\ layers[1] = layers[3]
    /\ Len(dot_nodes) = 3
    /\ Len(dot_edges) = 2

\* C2: in every state the graph holds at most one edge for each ordered
\* pair of identifiers.
C2_NoDuplicateEdge ==
    \A a, b \in DOMAIN dot_edges :
        dot_edges[a].points = dot_edges[b].points => a = b

\* C3 as stated: the label of every node is name|(O, I), each of O and I
\* the dimension's value when it is known and "?" otherwise.
C3_Original ==
    \A k \in DOMAIN dot_nodes : dot_nodes[k].label = Unescaped(LayerAt(k))

\* C3 as amended: the label of every node is E|(O, I), where E is the name
\* with every ">" written "&gt;", and each of O and I is the dimension's
\* value when it is known and "?" otherwise.
C3_LabelText ==
    \A k \in DOMAIN dot_nodes :
        dot_nodes[k].label =
            EscapeChars(LayerAt(k).name) \o <<"|", "(">>
                \o Expect(LayerAt(k).dims["nO"]) \o <<",", " ">>
                \o Expect(LayerAt(k).dims["nI"]) \o <<")">>

C3_Witness ==
    /\ pc = "done"
    /\ \E a, b \in DOMAIN dot_nodes :
         /\ LayerAt(a).name = <<"r">>
         /\ LayerAt(a).dims["nO"].has # "set"
         /\ LayerAt(a).dims["nI"].has # "set"
         /\ dot_nodes[a].label = <<"r", "|", "(", "?", ",", " ", "?", ")">>
         /\ LayerAt(b).name = <<"r">>
         /\ LayerAt(b).dims["nO"] = SetTo(32)
         /\ LayerAt(b).dims["nI"] = SetTo(16)
         /\ dot_nodes[b].label =
                <<"r", "|", "(", "3", "2", ",", " ", "1", "6", ")">>

\* C4: labelling a layer never fails, whichever of its dimensions are known,
\* adds the label's node and leaves the layer objects as they were.
C4_LabelTotalAndPure ==
    [][pc = "node" =>
          /\ pc' # "label_error"
          /\ Len(dot_nodes') = Len(dot_nodes) + 1
          /\ objs' = objs]_vars

C4_Witness ==
    \E a, b \in DOMAIN dot_nodes :
        /\ LayerAt(a).dims["nO"].has = "set"
        /\ LayerAt(a).dims["nI"].has = "unset"
        /\ LayerAt(b).dims["nO"].has = "absent"
        /\ LayerAt(b).dims["nI"].has = "set"

\* C5: on a pipeline of no layer a call raises nothing and ends with no node
\* and no edge; on a pipeline of one layer it raises nothing and ends with
\* one node and no edge.
C5_ShortPipelines ==
    N <= 1 =>
        /\ pc \notin Errors
        /\ pc = "done" => Len(dot_nodes) = N /\ Len(dot_edges) = 0

C5_Witness ==
    /\ pc = "done"
    /\ N = 1
    /\ Len(dot_nodes) = 1
    /\ dot_edges = <<>>
    /\ shown.valid

\* The text of dimension d in a displayed label: between "(" and ","
\* for nO, between ", " and the closing ")" for nI.
Bar(label) == CHOOSE k \in DOMAIN label : label[k] = "|"
Comma(label) == CHOOSE k \in DOMAIN label : label[k] = ","
DimField(label, d) ==
    IF d = "nO"
    THEN SubSeq(label, Bar(label) + 2, Comma(label) - 1)
    ELSE SubSeq(label, Comma(label) + 2, Len(label) - 1)

\* C6: after visualize_model, initialize, visualize_model: a dimension that
\* became known shows its value in the second display where the first
\* showed "?", and a dimension already known shows its value in both.
C6_LabelsAfterInference ==
    (pc = "done" /\ initialized /\ firstShown.valid) =>
        /\ Len(firstShown.labels) = N
        /\ Len(shown.labels) = N
        /\ \A k \in 1..N : \A d \in DimNames :
             LET was == before[layers[k]].dims[d]
                 now == objs[layers[k]].dims[d]
             IN  /\ (was.has # "set" /\ now.has = "set") =>
                        /\ DimField(firstShown.labels[k], d) = <<"?">>
                        /\ DimField(shown.labels[k], d) = Expect(now)
                 /\ was.has = "set" =>
                        /\ DimField(firstShown.labels[k], d) = Expect(was)
                        /\ DimField(shown.labels[k], d) = Expect(was)

C6_Witness ==
    /\ pc = "done"
    /\ initialized
    /\ firstShown.valid
    /\ \E k \in 1..N :
         /\ before[layers[k]].dims["nI"].has = "unset"
         /\ objs[layers[k]].dims["nI"] = SetTo(16)
         /\ before[layers[k]].dims["nO"] = SetTo(32)
         /\ DimField(shown.labels[k], "nI") = <<"1", "6">>

\* C7: a step changes the pipeline or a layer only if it is the
\* shape-inference step, and that step changes dimension values only: a
\* step of visualize_model leaves the list of layers and every layer's
\* name, identifier and dimensions as they were.
C7_DrawingLeavesPipeline ==
    [][(layers' # layers \/ objs' # objs) =>
          /\ pc = "done"
          /\ ~initialized /\ initialized'
          /\ layers' = layers
          /\ DOMAIN objs' = DOMAIN objs
          /\ \A k \in DOMAIN objs : objs'[k].name = objs[k].name]_vars

C7_Witness ==
    /\ pc = "done"
    /\ initialized
    /\ firstShown.valid
    /\ objs # before
    /\ \E k \in DOMAIN dot_nodes : HasGt(LayerAt(k).name)

RECURSIVE GtBefore(_, _)
\* The number of ">" among the first k characters of str.
GtBefore(str, k) ==
    IF k = 0 THEN 0
    ELSE GtBefore(str, k - 1) + (IF str[k] = ">" THEN 1 ELSE 0)

\* C8: no label holds a literal ">", and a label is its unescaped text
\* with every ">" replaced by "&gt;" and every other character kept, in
\* place.
C8_Escaping ==
    \A k \in DOMAIN dot_nodes :
        LET label == dot_nodes[k].label
            plain == Unescaped(LayerAt(k))
        IN  /\ ~HasGt(label)
            /\ Len(label) = Len(plain) + 3 * GtBefore(plain, Len(plain))
            /\ \A j \in DOMAIN plain :
                 LET at == j + 3 * GtBefore(plain, j - 1)
                 IN  IF plain[j] = ">"
                     THEN SubSeq(label, at, at + 3) = <<"&", "g", "t", ";">>
                     ELSE label[at] = plain[j]

C8_Witness ==
    \E k \in DOMAIN dot_nodes :
        /\ HasGt(LayerAt(k).name)
        /\ LayerAt(k).dims["nO"].has = "set"
        /\ Len(dot_nodes[k].label) > Len(Unescaped(LayerAt(k)))

\* C9: when a call has finished, the edges of the graph are exactly the
\* pairs (id[k-1], id[k]) of consecutive layers.
C9_EdgeSet ==
    pc = "done" =>
        {dot_edges[e].points : e \in DOMAIN dot_edges}
            = {<<Digits(layers[k - 1]), Digits(layers[k])>> : k \in 2..N}

C9_Witness ==
    /\ pc = "done"
    /\ N = 3
    /\ layers[1] = layers[2]
    /\ layers[3] # layers[2]
    /\ Len(dot_edges) = 2

\* The last position up to k that holds the same identifier as position j.
Latest(j, k) ==
    CHOOSE m \in 1..k :
        /\ layers[m] = layers[j]
        /\ \A n \in 1..k : layers[n] = layers[j] => n <= m

\* C10: at the edge step of iteration i the node table holds, for every
\* layer up to i, the node of the latest layer with that identifier; no
\* lookup misses; and every edge of the graph joins nodes already in it.
C10_NodeTable ==
    /\ pc # "key_error"
    /\ pc = "edge" =>
         \A j \in 1..i :
             /\ layers[j] \in DOMAIN nodes
             /\ nodes[layers[j]] = dot_nodes[Latest(j, i)]
             /\ nodes[layers[j]].at = Latest(j, i)
    /\ \A e \in DOMAIN dot_edges : \A p \in 1..2 :
         \E n \in DOMAIN dot_nodes : dot_nodes[n].name = dot_edges[e].points[p]

C10_Witness ==
    /\ pc = "edge"
    /\ i = 3
    /\ layers[1] = layers[3]
    /\ layers[2] # layers[1]
    /\ nodes[layers[1]].at = 3
    /\ Len(dot_edges) = 1
====
